---- MODULE Spec2Model ----
(***************************************************************************)
(* Order placement of the Binance futures trading bot: the validation      *)
(* pipeline of MarketOrderManager / LimitOrderManager over BasicBot, the   *)
(* gateway calls they make, and the float arithmetic of the tick check.    *)
(***************************************************************************)
EXTENDS Integers, Sequences, FiniteSets, TLC

(***************************************************************************)
(* Strings are sequences of one-character strings; str.upper() maps every  *)
(* character through the case table (a character may expand: 'ß' -> 'SS'). *)
(***************************************************************************)
UpperTable ==
    [c \in {"a", "b", "c", "d", "e", "f", "h", "k", "l", "o", "s", "t", "u", "y"} |->
        CASE c = "a" -> <<"A">> [] c = "b" -> <<"B">> [] c = "c" -> <<"C">>
          [] c = "d" -> <<"D">> [] c = "e" -> <<"E">> [] c = "f" -> <<"F">>
          [] c = "h" -> <<"H">> [] c = "k" -> <<"K">> [] c = "l" -> <<"L">>
          [] c = "o" -> <<"O">> [] c = "s" -> <<"S">> [] c = "t" -> <<"T">>
          [] c = "u" -> <<"U">> [] c = "y" -> <<"Y">>]

UpperChar(c) ==
    IF c \in DOMAIN UpperTable THEN UpperTable[c]
    ELSE IF c = "ß" THEN <<"S", "S">> ELSE <<c>>

RECURSIVE upper(_)
upper(s) == IF s = <<>> THEN <<>> ELSE UpperChar(Head(s)) \o upper(Tail(s))

(***************************************************************************)
(* Natural numbers of any size: sequences of digits of DigitBits bits,     *)
(* least significant first, no leading zero digit; zero is the empty       *)
(* sequence.  Bits are numbered from 1, the least significant.             *)
(***************************************************************************)
DigitBits == 12

Radix == 2^DigitBits

RECURSIVE Trim(_)
Trim(a) == IF a = <<>> THEN <<>>
           ELSE IF a[Len(a)] = 0 THEN Trim(SubSeq(a, 1, Len(a) - 1)) ELSE a

RECURSIVE NatToDigits(_)
NatToDigits(n) == IF n = 0 THEN <<>> ELSE <<n % Radix>> \o NatToDigits(n \div Radix)

DigitAt(a, i) == IF i >= 1 /\ i <= Len(a) THEN a[i] ELSE 0

\* the number of bits of a digit x > 0
DigitLen(x) == CHOOSE k \in 1..DigitBits : 2^(k - 1) <= x /\ x < 2^k

BitLen(a) == IF a = <<>> THEN 0 ELSE DigitBits * (Len(a) - 1) + DigitLen(a[Len(a)])

BitAt(a, i) ==
    IF i < 1 THEN 0
    ELSE (DigitAt(a, ((i - 1) \div DigitBits) + 1) \div 2^((i - 1) % DigitBits)) % 2

\* TRUE iff one of the k low bits of a is set
AnyLow(a, k) == \E i \in 1..k : BitAt(a, i) = 1

RECURSIVE AddCarry(_, _, _, _)
AddCarry(a, b, i, carry) ==
    IF i > Len(a) /\ i > Len(b)
    THEN IF carry = 1 THEN <<1>> ELSE <<>>
    ELSE LET s == DigitAt(a, i) + DigitAt(b, i) + carry
         IN  <<s % Radix>> \o AddCarry(a, b, i + 1, s \div Radix)

AddDigits(a, b) == AddCarry(a, b, 1, 0)

RECURSIVE SubBorrow(_, _, _, _)
SubBorrow(a, b, i, borrow) ==
    IF i > Len(a) THEN <<>>
    ELSE LET s == DigitAt(a, i) - DigitAt(b, i) - borrow
         IN  <<(s + Radix) % Radix>> \o SubBorrow(a, b, i + 1, IF s < 0 THEN 1 ELSE 0)

\* a - b for a >= b
SubDigits(a, b) == Trim(SubBorrow(a, b, 1, 0))

RECURSIVE CmpFrom(_, _, _)
CmpFrom(a, b, i) ==
    IF i = 0 THEN 0
    ELSE IF a[i] > b[i] THEN 1
    ELSE IF a[i] < b[i] THEN -1
    ELSE CmpFrom(a, b, i - 1)

\* -1, 0 or 1 as a < b, a = b, a > b
CmpDigits(a, b) ==
    IF Len(a) > Len(b) THEN 1
    ELSE IF Len(a) < Len(b) THEN -1
    ELSE CmpFrom(a, b, Len(a))

RECURSIVE MulCarry(_, _, _, _)
MulCarry(a, k, i, carry) ==
    IF i > Len(a)
    THEN IF carry > 0 THEN <<carry>> ELSE <<>>
    ELSE LET s == a[i] * k + carry
         IN  <<s % Radix>> \o MulCarry(a, k, i + 1, s \div Radix)

\* a * k for a number k of one digit
MulSmall(a, k) == IF k = 0 THEN <<>> ELSE MulCarry(a, k, 1, 0)

RECURSIVE MulFrom(_, _, _)
MulFrom(a, b, i) ==
    IF i > Len(b) THEN <<>>
    ELSE AddDigits(MulSmall(a, b[i]), IF i = Len(b) THEN <<>> ELSE <<0>> \o MulFrom(a, b, i + 1))

MulDigits(a, b) == IF a = <<>> \/ b = <<>> THEN <<>> ELSE Trim(MulFrom(a, b, 1))

\* a * 2^k
ShiftL(a, k) ==
    IF a = <<>> THEN <<>>
    ELSE [i \in 1..(k \div DigitBits) |-> 0] \o MulSmall(a, 2^(k % DigitBits))

\* a \div 2^k
ShiftR(a, k) ==
    IF k \div DigitBits >= Len(a) THEN <<>>
    ELSE LET rest == SubSeq(a, (k \div DigitBits) + 1, Len(a))
             s    == 2^(k % DigitBits)
         IN  Trim([i \in 1..Len(rest) |->
                     (rest[i] \div s) + (DigitAt(rest, i + 1) % s) * (Radix \div s)])

\* long division by a d whose top digit is at least Radix / 2, most significant
\* digit of n first: <<quotient, remainder>>.  The quotient digit c is
\* estimated from the two top digits of the running remainder r2, which
\* overshoots by at most 2
RECURSIVE DivFrom(_, _, _, _, _)
DivFrom(n, d, i, q, r) ==
    IF i = 0 THEN <<Trim(q), r>>
    ELSE LET r2   == Trim(<<n[i]>> \o r)
             top2 == DigitAt(r2, Len(d) + 1) * Radix + DigitAt(r2, Len(d))
             est  == IF top2 \div d[Len(d)] > Radix - 1 THEN Radix - 1
                     ELSE top2 \div d[Len(d)]
             c    == IF CmpDigits(MulSmall(d, est), r2) <= 0 THEN est
                     ELSE IF CmpDigits(MulSmall(d, est - 1), r2) <= 0 THEN est - 1
                     ELSE est - 2
         IN  IF c = 0 THEN DivFrom(n, d, i - 1, <<0>> \o q, r2)
             ELSE DivFrom(n, d, i - 1, <<c>> \o q, SubDigits(r2, MulSmall(d, c)))

\* <<n \div d, n % d>> for d > 0
DivModDigits(n, d) ==
    LET k  == DigitBits - DigitLen(d[Len(d)])
        n2 == ShiftL(n, k)
        qr == DivFrom(n2, ShiftL(d, k), Len(n2), <<>>, <<>>)
    IN  <<qr[1], ShiftR(qr[2], k)>>

RECURSIVE Pow10Digits(_)
Pow10Digits(k) == IF k = 0 THEN <<1>> ELSE MulSmall(Pow10Digits(k - 1), 10)

(***************************************************************************)
(* IEEE-754 binary64 values, as Python's float: sign, a mantissa of        *)
(* exactly MantissaBits bits (empty for zero) and a binary exponent; the   *)
(* value is m * 2^e.  Every operation rounds its exact result to nearest,  *)
(* ties to even.  Values stay far from overflow and the subnormal range.   *)
(***************************************************************************)
MantissaBits == 53

FloatZero == [neg |-> FALSE, m |-> <<>>, e |-> 0]

\* the float nearest to (n + f) * 2^e, where 0 <= f < 1 and f > 0 iff sticky
RoundBits(neg, n, e, sticky) ==
    IF n = <<>> THEN FloatZero
    ELSE IF BitLen(n) <= MantissaBits
    THEN [neg |-> neg, m |-> ShiftL(n, MantissaBits - BitLen(n)),
          e |-> e - (MantissaBits - BitLen(n))]
    ELSE LET k      == BitLen(n) - MantissaBits
             kept   == ShiftR(n, k)
             guard  == BitAt(n, k)
             st     == sticky \/ AnyLow(n, k - 1)
             up     == guard = 1 /\ (st \/ BitAt(kept, 1) = 1)
             m2     == IF up THEN AddDigits(kept, <<1>>) ELSE kept
         IN  IF BitLen(m2) > MantissaBits
             THEN [neg |-> neg, m |-> ShiftR(m2, 1), e |-> e + k + 1]
             ELSE [neg |-> neg, m |-> m2, e |-> e + k]

\* float("<digits>e-<scale>"): the float nearest to a decimal literal
ParseFloat(d) ==
    LET n   == NatToDigits(d.digits)
        den == Pow10Digits(d.scale)
        s   == IF MantissaBits + 2 + BitLen(den) > BitLen(n)
               THEN MantissaBits + 2 + BitLen(den) - BitLen(n) ELSE 0
        qr  == DivModDigits(ShiftL(n, s), den)
    IN  RoundBits(d.neg, qr[1], 0 - s, qr[2] # <<>>)

FloatIsZero(x) == x.m = <<>>

FloatAbs(x) == [x EXCEPT !.neg = FALSE]

FloatNeg(x) == IF FloatIsZero(x) THEN x ELSE [x EXCEPT !.neg = ~x.neg]

\* x / y for y # 0
FloatDiv(x, y) ==
    IF FloatIsZero(x) THEN FloatZero
    ELSE LET s  == MantissaBits + 2
             qr == DivModDigits(ShiftL(x.m, s), y.m)
         IN  RoundBits(x.neg # y.neg, qr[1], x.e - y.e - s, qr[2] # <<>>)

FloatMul(x, y) ==
    IF FloatIsZero(x) \/ FloatIsZero(y) THEN FloatZero
    ELSE RoundBits(x.neg # y.neg, MulDigits(x.m, y.m), x.e + y.e, FALSE)

FloatAdd(x, y) ==
    IF FloatIsZero(x) THEN y
    ELSE IF FloatIsZero(y) THEN x
    ELSE LET e == IF x.e < y.e THEN x.e ELSE y.e
             a == ShiftL(x.m, x.e - e)
             b == ShiftL(y.m, y.e - e)
             c == CmpDigits(a, b)
         IN  IF x.neg = y.neg THEN RoundBits(x.neg, AddDigits(a, b), e, FALSE)
             ELSE IF c = 0 THEN FloatZero
             ELSE IF c > 0 THEN RoundBits(x.neg, SubDigits(a, b), e, FALSE)
             ELSE RoundBits(y.neg, SubDigits(b, a), e, FALSE)

FloatSub(x, y) == FloatAdd(x, FloatNeg(y))

\* -1, 0 or 1 as x < y, x = y, x > y
FloatCmp(x, y) ==
    LET d == FloatSub(x, y)
    IN  IF FloatIsZero(d) THEN 0 ELSE IF d.neg THEN -1 ELSE 1

FloatLE(x, y) == FloatCmp(x, y) <= 0

FloatGE(x, y) == FloatCmp(x, y) >= 0

\* round(x): the nearest integer, ties to even, as [neg, n]
PyRound(x) ==
    IF FloatIsZero(x) THEN [neg |-> FALSE, n |-> <<>>]
    ELSE IF x.e >= 0 THEN [neg |-> x.neg, n |-> ShiftL(x.m, x.e)]
    ELSE LET k     == 0 - x.e
             kept  == ShiftR(x.m, k)
             guard == BitAt(x.m, k)
             st    == AnyLow(x.m, k - 1)
             up    == guard = 1 /\ (st \/ BitAt(kept, 1) = 1)
         IN  [neg |-> x.neg, n |-> IF up THEN AddDigits(kept, <<1>>) ELSE kept]

\* float(i) of a Python int
IntToFloat(i) == RoundBits(i.neg, i.n, 0, FALSE)

Dec(digits, scale) == [neg |-> FALSE, digits |-> digits, scale |-> scale]

NegDec(digits, scale) == [neg |-> TRUE, digits |-> digits, scale |-> scale]

(***************************************************************************)
(* A float argument is written as the decimal literal it is parsed from    *)
(* (argparse type=float, float(filter['minQty'])); FloatOf is its value.   *)
(***************************************************************************)
\* Optional values: None is the empty sequence, a value x is <<x>>
None == <<>>

Some(x) == <<x>>

BTCUSDT == <<"B", "T", "C", "U", "S", "D", "T">>
btcusdt == <<"b", "t", "c", "u", "s", "d", "t">>
ETHUSDT == <<"E", "T", "H", "U", "S", "D", "T">>
FAKEUSDT == <<"F", "A", "K", "E", "U", "S", "D", "T">>
BUY == <<"B", "U", "Y">>
SELL == <<"S", "E", "L", "L">>

SymbolInputs == {BTCUSDT, btcusdt, FAKEUSDT}

SideInputs == {<<"b", "u", "y">>, SELL, <<"h", "o", "l", "d">>}

QuantityInputs == {NegDec(1, 0), Dec(0, 0), Dec(5, 4), Dec(1, 3), Dec(2, 3)}

PriceInputs == {Dec(0, 0), Dec(10000, 2), Dec(100005, 3), Dec(10001, 2)}

MinQtyValues == {Dec(1, 3), Dec(2, 3)}

TickSizeValues == {Dec(1, 2), Dec(1, 1)}

\* the function with domain S that maps d to ParseFloat(d), every value
\* computed once
RECURSIVE FloatTable(_)
FloatTable(S) ==
    IF S = {} THEN <<>>
    ELSE LET x == CHOOSE y \in S : TRUE
         IN  (x :> ParseFloat(x)) @@ FloatTable(S \ {x})

FloatOf == FloatTable(QuantityInputs \cup PriceInputs \cup MinQtyValues \cup TickSizeValues)

ToFloat(d) == IF d \in DOMAIN FloatOf THEN FloatOf[d] ELSE ParseFloat(d)

(***************************************************************************)
(* futures_exchange_info: the 'symbols' list of the exchange, each entry   *)
(* with its status and its filters.  The exchange moves between these      *)
(* snapshots on its own; a snapshot goes by its name.                      *)
(***************************************************************************)
LotSize(minQty) == [filterType |-> "LOT_SIZE", minQty |-> minQty]

PriceFilter(tickSize) == [filterType |-> "PRICE_FILTER", tickSize |-> tickSize]

SymbolEntry(symbol, status, filters) ==
    [symbol |-> symbol, status |-> status, filters |-> filters]

EthEntry == SymbolEntry(ETHUSDT, "TRADING", <<PriceFilter(Dec(1, 2)), LotSize(Dec(1, 3))>>)

Listed(status, filters) == <<EthEntry, SymbolEntry(BTCUSDT, status, filters)>>

SnapBase == Listed("TRADING", <<PriceFilter(Dec(1, 2)), LotSize(Dec(1, 3))>>)
SnapHalted == Listed("BREAK", <<PriceFilter(Dec(1, 2)), LotSize(Dec(1, 3))>>)
SnapRaisedMin == Listed("TRADING", <<PriceFilter(Dec(1, 2)), LotSize(Dec(2, 3))>>)
SnapCoarseTick == Listed("TRADING", <<PriceFilter(Dec(1, 1)), LotSize(Dec(1, 3))>>)
SnapNoLotSize == Listed("TRADING", <<PriceFilter(Dec(1, 2))>>)
SnapNoPriceFilter == Listed("TRADING", <<LotSize(Dec(1, 3))>>)
SnapDelisted == <<EthEntry>>

Snapshots == {"base", "halted", "raised_min", "coarse_tick", "no_lot_size",
              "no_price_filter", "delisted"}

SymbolsOf(snapshot) ==
    CASE snapshot = "base" -> SnapBase
      [] snapshot = "halted" -> SnapHalted
      [] snapshot = "raised_min" -> SnapRaisedMin
      [] snapshot = "coarse_tick" -> SnapCoarseTick
      [] snapshot = "no_lot_size" -> SnapNoLotSize
      [] snapshot = "no_price_filter" -> SnapNoPriceFilter
      [] snapshot = "delisted" -> SnapDelisted

\* what a call of futures_exchange_info gives: the snapshot, or an exception
InfoOk(snapshot) == [ok |-> TRUE, snapshot |-> snapshot]

InfoRaised == [ok |-> FALSE, snapshot |-> "none"]

(***************************************************************************)
(* BasicBot                                                                *)
(***************************************************************************)
\* mutant: the symbol is compared as given, not upper-cased
validate_symbol_CaseSensitive(info, symbol) ==
    IF ~info.ok THEN FALSE
    ELSE LET exchange_info == SymbolsOf(info.snapshot)
         IN  \E i \in DOMAIN exchange_info :
                 exchange_info[i].status = "TRADING" /\ exchange_info[i].symbol = symbol

validate_symbol(info, symbol) ==
    IF ~info.ok THEN FALSE
    ELSE LET exchange_info == SymbolsOf(info.snapshot)
             symbols == {exchange_info[i].symbol :
                            i \in {j \in DOMAIN exchange_info :
                                      exchange_info[j].status = "TRADING"}}
         IN  upper(symbol) \in symbols

\* mutant: quantity > min_qty instead of quantity >= min_qty
RECURSIVE ScanLotSize_Strict(_, _, _)
ScanLotSize_Strict(filters, j, quantity) ==
    IF j > Len(filters) THEN [returned |-> FALSE, value |-> FALSE]
    ELSE IF filters[j].filterType = "LOT_SIZE"
    THEN [returned |-> TRUE,
          value |-> FloatCmp(ToFloat(quantity), ToFloat(filters[j].minQty)) > 0]
    ELSE ScanLotSize_Strict(filters, j + 1, quantity)

\* the inner loop of validate_quantity: the first LOT_SIZE filter decides
RECURSIVE ScanLotSize(_, _, _)
ScanLotSize(filters, j, quantity) ==
    IF j > Len(filters) THEN [returned |-> FALSE, value |-> FALSE]
    ELSE IF filters[j].filterType = "LOT_SIZE"
    THEN [returned |-> TRUE,
          value |-> FloatGE(ToFloat(quantity), ToFloat(filters[j].minQty))]
    ELSE ScanLotSize(filters, j + 1, quantity)

\* the outer loop of validate_quantity, and the return False after it
RECURSIVE ScanSymbols(_, _, _, _)
ScanSymbols(symbols, i, symbol, quantity) ==
    IF i > Len(symbols) THEN FALSE
    ELSE IF symbols[i].symbol = upper(symbol)
    THEN LET r == ScanLotSize(symbols[i].filters, 1, quantity)
         IN  IF r.returned THEN r.value
             ELSE ScanSymbols(symbols, i + 1, symbol, quantity)
    ELSE ScanSymbols(symbols, i + 1, symbol, quantity)

validate_quantity(info, symbol, quantity) ==
    IF ~info.ok THEN FALSE ELSE ScanSymbols(SymbolsOf(info.snapshot), 1, symbol, quantity)

get_symbol_info(info, symbol) ==
    IF ~info.ok THEN None
    ELSE LET exchange_info == SymbolsOf(info.snapshot)
             hits == {i \in DOMAIN exchange_info : exchange_info[i].symbol = upper(symbol)}
         IN  IF hits = {} THEN None
             ELSE Some(exchange_info[CHOOSE i \in hits : \A j \in hits : i <= j])

(***************************************************************************)
(* LimitOrderManager._validate_price_precision                             *)
(***************************************************************************)
ToleranceFactor == ParseFloat(Dec(1, 10))

\* rounded_price = round(price / tick_size) * tick_size;
\* abs(price - rounded_price) <= tick_size * 1e-10; a zero tick size raises
\* ZeroDivisionError, which the except clause turns into False
TickAligned(price, tick_size) ==
    IF FloatIsZero(tick_size) THEN FALSE
    ELSE LET rounded_price == FloatMul(IntToFloat(PyRound(FloatDiv(price, tick_size))),
                                       tick_size)
             tolerance     == FloatMul(tick_size, ToleranceFactor)
         IN  FloatLE(FloatAbs(FloatSub(price, rounded_price)), tolerance)

TickAlignedAt(pt) == TickAligned(ToFloat(pt[1]), ToFloat(pt[2]))

RECURSIVE TickTable(_)
TickTable(S) ==
    IF S = {} THEN <<>>
    ELSE LET x == CHOOSE y \in S : TRUE
         IN  (x :> TickAlignedAt(x)) @@ TickTable(S \ {x})

TickAlignedOf == TickTable(PriceInputs \X TickSizeValues)

\* mutant: a symbol without PRICE_FILTER fails the price check
RECURSIVE ScanPriceFilter_Required(_, _, _)
ScanPriceFilter_Required(filters, j, price) ==
    IF j > Len(filters) THEN FALSE
    ELSE IF filters[j].filterType = "PRICE_FILTER"
    THEN TickAligned(ToFloat(price), ToFloat(filters[j].tickSize))
    ELSE ScanPriceFilter_Required(filters, j + 1, price)

\* the loop over the filters: the first PRICE_FILTER decides, none gives True
RECURSIVE ScanPriceFilter(_, _, _)
ScanPriceFilter(filters, j, price) ==
    IF j > Len(filters) THEN TRUE
    ELSE IF filters[j].filterType = "PRICE_FILTER"
    THEN IF <<price, filters[j].tickSize>> \in DOMAIN TickAlignedOf
         THEN TickAlignedOf[<<price, filters[j].tickSize>>]
         ELSE TickAligned(ToFloat(price), ToFloat(filters[j].tickSize))
    ELSE ScanPriceFilter(filters, j + 1, price)

_validate_price_precision(info, symbol, price) ==
    LET symbol_info == get_symbol_info(info, symbol)
    IN  IF symbol_info = None THEN FALSE
        ELSE ScanPriceFilter(symbol_info[1].filters, 1, price)

(***************************************************************************)
(* One invocation of place_market_order / place_limit_order at a time:     *)
(*   exchange  the metadata the exchange publishes now                     *)
(*   pc        where the invocation stands                                 *)
(*   args      its arguments                                               *)
(*   calls     the gateway calls it has made, in order, with their returns *)
(*   checks    the validation checks it has evaluated, in order            *)
(*   result    what it returned (None until it returns a dict)             *)
(*   raised    an exception left place_*_order                             *)
(*   probe     the price and tick size of a stand-alone tick check         *)
(*   session   the BasicBot object, once constructed                       *)
(*   log       what the logger has been given, in order                    *)
(*   exit_code the exit status of the command line process, once it ended  *)
(*   escaped   the exception that left BasicBot(...) or reached the end of *)
(*             main: "none", "Exception", "KeyboardInterrupt", "SystemExit"*)
(***************************************************************************)
VARIABLES exchange, pc, args, calls, checks, result, raised, probe, session, log,
          exit_code, escaped

process == <<session, log, exit_code, escaped>>

vars == <<exchange, pc, args, calls, checks, result, raised, probe, process>>

MaxOrderId == 2

NoArgs == [kind |-> "none"]

MarketArgs(symbol, side, quantity) ==
    [kind |-> "MARKET", symbol |-> symbol, side |-> side, quantity |-> quantity]

LimitArgs(symbol, side, quantity, price) ==
    [kind |-> "LIMIT", symbol |-> symbol, side |-> side, quantity |-> quantity,
     price |-> price]

Check(name, passed) == [check |-> name, passed |-> passed]

Failed(cs) == cs # <<>> /\ ~cs[Len(cs)].passed

\* mutant: every check is evaluated, whatever the earlier ones gave
ChecksUpToQuantity_All(symbol_ok, side, quantity) ==
    <<Check("symbol", symbol_ok), Check("side", upper(side) \in {BUY, SELL}),
      Check("quantity_positive", ~FloatLE(ToFloat(quantity), FloatZero))>>

\* _validate_*_order_inputs from the symbol check to the sign of the quantity
ChecksUpToQuantity(symbol_ok, side, quantity) ==
    IF ~symbol_ok THEN <<Check("symbol", FALSE)>>
    ELSE IF upper(side) \notin {BUY, SELL}
    THEN <<Check("symbol", TRUE), Check("side", FALSE)>>
    ELSE IF FloatLE(ToFloat(quantity), FloatZero)
    THEN <<Check("symbol", TRUE), Check("side", TRUE), Check("quantity_positive", FALSE)>>
    ELSE <<Check("symbol", TRUE), Check("side", TRUE), Check("quantity_positive", TRUE)>>

\* _validate_*_order_inputs from validate_quantity to the sign of the price
ChecksAfterMinQty(a, quantity_ok) ==
    IF ~quantity_ok THEN <<Check("min_quantity", FALSE)>>
    ELSE IF a.kind = "MARKET" THEN <<Check("min_quantity", TRUE)>>
    ELSE IF FloatLE(ToFloat(a.price), FloatZero)
    THEN <<Check("min_quantity", TRUE), Check("price_positive", FALSE)>>
    ELSE <<Check("min_quantity", TRUE), Check("price_positive", TRUE)>>

\* mutant: the result of the validation is ignored
ReturnIfInvalid_Ignored(cs, next) == next

\* if not self._validate_..._inputs(...): return None
ReturnIfInvalid(cs, next) == IF Failed(cs) THEN "done" ELSE next

\* mutant: the except clause re-raises
PlaceOrderExcept_Reraise == [result |-> None, raised |-> TRUE]

\* except Exception as e: ... return None
PlaceOrderExcept == [result |-> None, raised |-> FALSE]

InfoCall(info) ==
    [op |-> "futures_exchange_info", ok |-> info.ok, snapshot |-> info.snapshot]

\* the keyword arguments of futures_create_order
CreateRequest(a) ==
    IF a.kind = "MARKET"
    THEN [symbol |-> upper(a.symbol), side |-> upper(a.side), type |-> "MARKET",
          quantity |-> a.quantity]
    ELSE [symbol |-> upper(a.symbol), side |-> upper(a.side), type |-> "LIMIT",
          timeInForce |-> "GTC", quantity |-> a.quantity, price |-> a.price]

CreateCall(a, ok, ret) ==
    [op |-> "futures_create_order", ok |-> ok, request |-> CreateRequest(a), ret |-> ret]

GetOrderCall(a, order_id, ok, ret) ==
    [op |-> "futures_get_order", ok |-> ok, symbol |-> upper(a.symbol),
     orderId |-> order_id, ret |-> ret]

\* what the exchange may answer to futures_create_order and futures_get_order
CreateResponses == {[orderId |-> i] : i \in 1..MaxOrderId} \cup {[msg |-> "accepted"]}

OrderInfos == {[status |-> "NEW"], [status |-> "FILLED"], [msg |-> "no status"]}

\* mutant: a failed status query reports a status all the same
_get_order_status_Stale(ok, order_info) ==
    IF "status" \in DOMAIN order_info THEN Some(order_info.status) ELSE None

\* _get_order_status: order_info.get('status'), None when the call raises
_get_order_status(ok, order_info) ==
    IF ~ok THEN None
    ELSE IF "status" \in DOMAIN order_info THEN Some(order_info.status) ELSE None

\* the dict place_*_order returns
OrderResult(a, order, order_status) ==
    IF a.kind = "MARKET"
    THEN [order_id |-> order.orderId, symbol |-> a.symbol, side |-> a.side,
          quantity |-> a.quantity, type |-> "MARKET", status |-> order_status,
          raw_response |-> order]
    ELSE [order_id |-> order.orderId, symbol |-> a.symbol, side |-> a.side,
          quantity |-> a.quantity, price |-> a.price, type |-> "LIMIT",
          status |-> order_status, raw_response |-> order]

\* mutant: a failed futures_create_order is tried again
AfterCreate_Retry(ok, order) ==
    IF ~ok THEN "create_order"
    ELSE IF "orderId" \in DOMAIN order THEN "get_order" ELSE "done"

\* where place_*_order goes after futures_create_order
AfterCreate(ok, order) ==
    IF ok /\ "orderId" \in DOMAIN order THEN "get_order" ELSE "done"

Init ==
    /\ exchange \in Snapshots
    /\ pc = "idle"
    /\ args = NoArgs
    /\ calls = <<>>
    /\ checks = <<>>
    /\ result = None
    /\ raised = FALSE
    /\ probe = None
    /\ session = None
    /\ log = <<>>
    /\ exit_code = None
    /\ escaped = "none"

Begin(a) ==
    /\ args' = a
    /\ pc' = "validate_symbol"
    /\ calls' = <<>>
    /\ checks' = <<>>
    /\ result' = None
    /\ raised' = FALSE
    /\ UNCHANGED <<exchange, probe, process>>

place_market_order ==
    /\ pc = "idle"
    /\ \E symbol \in SymbolInputs, side \in SideInputs, quantity \in QuantityInputs :
          Begin(MarketArgs(symbol, side, quantity))

place_limit_order ==
    /\ pc = "idle"
    /\ \E symbol \in SymbolInputs, side \in SideInputs, quantity \in QuantityInputs,
          price \in PriceInputs :
          Begin(LimitArgs(symbol, side, quantity, price))

\* a validation step: the fetch it makes, the checks it evaluates, and the
\* return None when one of them fails
ValidationStep(info, cs, next) ==
    /\ calls' = Append(calls, InfoCall(info))
    /\ checks' = checks \o cs
    /\ pc' = ReturnIfInvalid(cs, next)
    /\ UNCHANGED <<exchange, args, result, raised, probe, process>>

ValidateSymbolStep ==
    /\ pc = "validate_symbol"
    /\ \E info \in {InfoOk(exchange), InfoRaised} :
          ValidationStep(info,
              ChecksUpToQuantity(validate_symbol(info, args.symbol), args.side,
                                 args.quantity),
              "validate_quantity")

ValidateQuantityStep ==
    /\ pc = "validate_quantity"
    /\ \E info \in {InfoOk(exchange), InfoRaised} :
          ValidationStep(info,
              ChecksAfterMinQty(args, validate_quantity(info, args.symbol, args.quantity)),
              IF args.kind = "MARKET" THEN "create_order" ELSE "price_precision")

ValidatePricePrecisionStep ==
    /\ pc = "price_precision"
    /\ \E info \in {InfoOk(exchange), InfoRaised} :
          ValidationStep(info,
              <<Check("tick", _validate_price_precision(info, args.symbol, args.price))>>,
              "create_order")

CreateOrderRaises ==
    /\ pc = "create_order"
    /\ calls' = Append(calls, CreateCall(args, FALSE, None))
    /\ pc' = AfterCreate(FALSE, None)
    /\ result' = PlaceOrderExcept.result
    /\ raised' = PlaceOrderExcept.raised
    /\ UNCHANGED <<exchange, args, checks, probe, process>>

CreateOrderReturns ==
    /\ pc = "create_order"
    /\ \E order \in CreateResponses :
          /\ calls' = Append(calls, CreateCall(args, TRUE, Some(order)))
          /\ pc' = AfterCreate(TRUE, order)
          /\ IF "orderId" \in DOMAIN order
             THEN UNCHANGED <<result, raised>>
             ELSE /\ result' = PlaceOrderExcept.result
                  /\ raised' = PlaceOrderExcept.raised
    /\ UNCHANGED <<exchange, args, checks, probe, process>>

\* the order of the successful futures_create_order of this invocation
LastOrder == calls[Len(calls)].ret[1]

GetOrderStep ==
    /\ pc = "get_order"
    /\ \E ok \in BOOLEAN, order_info \in OrderInfos :
          /\ (~ok => order_info = [status |-> "NEW"])
          /\ calls' = Append(calls, GetOrderCall(args, LastOrder.orderId, ok,
                                                 IF ok THEN Some(order_info) ELSE None))
          /\ result' = Some(OrderResult(args, LastOrder, _get_order_status(ok, order_info)))
    /\ pc' = "done"
    /\ UNCHANGED <<exchange, args, checks, raised, probe, process>>

\* the caller has the result; nothing is kept between invocations
Finish ==
    /\ pc = "done"
    /\ pc' = "idle"
    /\ args' = NoArgs
    /\ calls' = <<>>
    /\ checks' = <<>>
    /\ result' = None
    /\ raised' = FALSE
    /\ UNCHANGED <<exchange, probe, process>>

\* the exchange changes its metadata while the invocation has yet to fetch it
ExchangeChange ==
    /\ pc \in {"validate_symbol", "validate_quantity", "price_precision"}
    /\ exchange' \in Snapshots \ {exchange}
    /\ UNCHANGED <<pc, args, calls, checks, result, raised, probe, process>>

Next ==
    \/ place_market_order
    \/ place_limit_order
    \/ ValidateSymbolStep
    \/ ValidateQuantityStep
    \/ ValidatePricePrecisionStep
    \/ CreateOrderRaises
    \/ CreateOrderReturns
    \/ GetOrderStep
    \/ Finish
    \/ ExchangeChange

Spec == Init /\ [][Next]_vars

(***************************************************************************)
(* _validate_price_precision on its own: a price and a tick size, both in  *)
(* thousandths, and what the check answers.                                *)
(***************************************************************************)
MaxProbeSteps == 20

ProbePrices ==
    {5 * k : k \in 1..MaxProbeSteps}
        \cup {100000, 100005, 100010, 2500000, 8192130, 50000010, 65536400}

ProbeTicks == {1, 10, 100, 500}

ProbeOf(p, t) == [price |-> Dec(p, 3), tick_size |-> Dec(t, 3), accepted |-> None]

InitTick ==
    /\ exchange = "base"
    /\ pc = "idle"
    /\ args = NoArgs
    /\ calls = <<>>
    /\ checks = <<>>
    /\ result = None
    /\ raised = FALSE
    /\ probe \in {Some(ProbeOf(p, t)) : p \in ProbePrices, t \in ProbeTicks}
    /\ session = None
    /\ log = <<>>
    /\ exit_code = None
    /\ escaped = "none"

CheckTick ==
    /\ probe # None
    /\ probe[1].accepted = None
    /\ probe' = Some([probe[1] EXCEPT !.accepted =
                        Some(ScanPriceFilter(<<PriceFilter(probe[1].tick_size)>>, 1,
                                             probe[1].price))])
    /\ UNCHANGED <<exchange, pc, args, calls, checks, result, raised, process>>

NextTick == CheckTick

SpecTick == InitTick /\ [][NextTick]_vars

(***************************************************************************)
(* What the properties speak of                                            *)
(***************************************************************************)
CallsOf(op) == {i \in DOMAIN calls : calls[i].op = op}

NumCalls(op) == Cardinality(CallsOf(op))

\* the order in which the checks are written in _validate_*_order_inputs
MarketChecks == <<"symbol", "side", "quantity_positive", "min_quantity">>

LimitChecks == MarketChecks \o <<"price_positive", "tick">>

CheckOrder == IF args.kind = "LIMIT" THEN LimitChecks ELSE MarketChecks

AnyFailed == \E i \in DOMAIN checks : ~checks[i].passed

ValidationPassed ==
    /\ args.kind # "none"
    /\ Len(checks) = Len(CheckOrder)
    /\ ~AnyFailed

\* the number of metadata fetches made when the named check is evaluated
FetchesFor(name) ==
    CASE name \in {"symbol", "side", "quantity_positive"} -> 1
      [] name \in {"min_quantity", "price_positive"} -> 2
      [] name = "tick" -> 3

\* decimal literals compared as the numbers they denote
DecPositive(d) == ~d.neg /\ d.digits > 0

\* d as a whole number of units of 10^(-scale), scale >= d.scale
Scaled(d, scale) == d.digits * 10 ^ (scale - d.scale)

CommonScale(a, b) == IF a.scale >= b.scale THEN a.scale ELSE b.scale

DecGE(a, b) == Scaled(a, CommonScale(a, b)) >= Scaled(b, CommonScale(a, b))

DecMultiple(p, t) ==
    /\ t.digits > 0
    /\ Scaled(p, CommonScale(p, t)) % Scaled(t, CommonScale(p, t)) = 0

EntriesFor(snapshot, symbol) ==
    {i \in DOMAIN SymbolsOf(snapshot) : SymbolsOf(snapshot)[i].symbol = symbol}

FiltersFor(snapshot, symbol, filterType) ==
    UNION {{SymbolsOf(snapshot)[i].filters[j] : j \in
               {k \in DOMAIN SymbolsOf(snapshot)[i].filters :
                    SymbolsOf(snapshot)[i].filters[k].filterType = filterType}} :
           i \in EntriesFor(snapshot, symbol)}

\* one snapshot in which the symbol trades, the quantity reaches minQty and
\* the price of a limit order is a multiple of tickSize
CertifiedIn(snapshot, a) ==
    /\ \E i \in EntriesFor(snapshot, upper(a.symbol)) :
           SymbolsOf(snapshot)[i].status = "TRADING"
    /\ FiltersFor(snapshot, upper(a.symbol), "LOT_SIZE") # {}
    /\ \A f \in FiltersFor(snapshot, upper(a.symbol), "LOT_SIZE") :
           DecPositive(a.quantity) /\ DecGE(a.quantity, f.minQty)
    /\ a.kind = "LIMIT" =>
           \A f \in FiltersFor(snapshot, upper(a.symbol), "PRICE_FILTER") :
               DecPositive(a.price) /\ DecMultiple(a.price, f.tickSize)

FetchedSnapshots == {calls[i].snapshot : i \in {j \in CallsOf("futures_exchange_info") : calls[j].ok}}

InfoOf(call) == [ok |-> call.ok, snapshot |-> call.snapshot]

(***************************************************************************)
(* C1: an invocation in which a validation check has failed never calls    *)
(* futures_create_order: it has returned, and what it returned is None.    *)
(***************************************************************************)
C1_RejectedNeverSubmits ==
    AnyFailed =>
        /\ NumCalls("futures_create_order") = 0
        /\ pc = "done"
        /\ result = None
        /\ ~raised

\* place_market_order("FAKEUSDT", "buy", ...) has been rejected
C1_Witness ==
    /\ pc = "done"
    /\ args.kind = "MARKET"
    /\ args.symbol = FAKEUSDT
    /\ args.side = <<"b", "u", "y">>
    /\ AnyFailed
    /\ result = None

(***************************************************************************)
(* C2 (as the specification states it): whenever futures_create_order has  *)
(* been called, one single snapshot -- one that this invocation fetched,   *)
(* or the one the exchange publishes now -- has the symbol TRADING, the    *)
(* quantity at or above minQty and the price on the tick.                  *)
(***************************************************************************)
C2_CertifiedAgainstOneSnapshot ==
    NumCalls("futures_create_order") > 0 =>
        \E snapshot \in FetchedSnapshots \cup {exchange} : CertifiedIn(snapshot, args)

(***************************************************************************)
(* C3: futures_create_order is called at most once and futures_get_order   *)
(* at most once per invocation; futures_get_order comes directly after a   *)
(* futures_create_order that returned; a call that raised is the last call *)
(* of the invocation; and an invocation that passed validation and has     *)
(* returned called futures_create_order exactly once.                      *)
(***************************************************************************)
C3_SingleAttempt ==
    /\ NumCalls("futures_create_order") <= 1
    /\ NumCalls("futures_get_order") <= 1
    /\ \A i \in CallsOf("futures_get_order") :
           /\ i > 1
           /\ calls[i - 1].op = "futures_create_order"
           /\ calls[i - 1].ok
    /\ \A i \in DOMAIN calls : ~calls[i].ok => i = Len(calls)
    /\ (pc \in {"get_order", "done"} /\ ValidationPassed) =>
           NumCalls("futures_create_order") = 1

\* validation passed, the order was created and its status queried
C3_Witness ==
    /\ pc = "done"
    /\ ValidationPassed
    /\ NumCalls("futures_create_order") = 1
    /\ NumCalls("futures_get_order") = 1

(***************************************************************************)
(* C4: when futures_create_order raised, the invocation has returned None, *)
(* no exception left it, and futures_get_order was not called.             *)
(***************************************************************************)
C4_CreateErrorReturnsNone ==
    (\E i \in CallsOf("futures_create_order") : ~calls[i].ok) =>
        /\ pc = "done"
        /\ result = None
        /\ ~raised
        /\ NumCalls("futures_get_order") = 0

C4_Witness ==
    /\ pc = "done"
    /\ \E i \in CallsOf("futures_create_order") : ~calls[i].ok
    /\ ValidationPassed

(***************************************************************************)
(* C5 (as the specification states it): when futures_create_order returned *)
(* and futures_get_order raised, the invocation returns None.              *)
(***************************************************************************)
C5_StatusErrorReturnsNone ==
    (pc = "done" /\ \E i \in CallsOf("futures_get_order") : ~calls[i].ok) =>
        result = None

(***************************************************************************)
(* C5 (amended): when futures_create_order returned and futures_get_order  *)
(* raised, the invocation returns the order dict of the created order,     *)
(* with the orderId and the raw response of futures_create_order and with  *)
(* status None; no exception leaves it.                                    *)
(***************************************************************************)
C5_StatusErrorReturnsOrderWithoutStatus ==
    (pc = "done" /\ \E i \in CallsOf("futures_get_order") : ~calls[i].ok) =>
        /\ result # None
        /\ ~raised
        /\ result[1].status = None
        /\ \A i \in CallsOf("futures_create_order") :
               /\ calls[i].ok
               /\ result[1].order_id = calls[i].ret[1].orderId
               /\ result[1].raw_response = calls[i].ret[1]

C5_Witness ==
    /\ pc = "done"
    /\ NumCalls("futures_create_order") = 1
    /\ \E i \in CallsOf("futures_get_order") : ~calls[i].ok

(***************************************************************************)
(* C6: the checks evaluated are a prefix of the fixed order symbol, side,  *)
(* quantity positive, quantity >= minQty, price positive, tick; only the   *)
(* last of them can have failed; and when it failed the invocation has     *)
(* returned None having made the metadata fetches up to that check and no  *)
(* other call.                                                             *)
(***************************************************************************)
C6_ShortCircuit ==
    /\ Len(checks) <= Len(CheckOrder)
    /\ \A i \in DOMAIN checks : checks[i].check = CheckOrder[i]
    /\ \A i \in DOMAIN checks : ~checks[i].passed => i = Len(checks)
    /\ Failed(checks) =>
           /\ pc = "done"
           /\ result = None
           /\ Len(calls) = FetchesFor(checks[Len(checks)].check)
           /\ NumCalls("futures_exchange_info") = Len(calls)

\* unknown symbol, invalid side and negative quantity together: rejected on
\* the symbol after one fetch
C6_Witness ==
    /\ pc = "done"
    /\ args.symbol = FAKEUSDT
    /\ args.side = <<"h", "o", "l", "d">>
    /\ args.quantity = NegDec(1, 0)
    /\ checks = <<Check("symbol", FALSE)>>
    /\ Len(calls) = 1

(***************************************************************************)
(* C7: the check of the sign of the quantity passes exactly when the       *)
(* quantity is above zero, so a quantity <= 0 never reaches the minQty     *)
(* check; and, when the metadata fetch of validate_quantity returned and   *)
(* lists a LOT_SIZE filter for the symbol, the minQty check passes exactly *)
(* when the quantity is at or above minQty.                                *)
(***************************************************************************)
C7_QuantityRule ==
    /\ \A i \in DOMAIN checks :
           checks[i].check = "quantity_positive" =>
               (checks[i].passed <=> DecPositive(args.quantity))
    /\ (args.kind # "none" /\ ~DecPositive(args.quantity)) =>
           /\ \A i \in DOMAIN checks : checks[i].check # "min_quantity"
           /\ NumCalls("futures_create_order") = 0
           /\ result = None
    /\ \A i \in DOMAIN checks :
           (checks[i].check = "min_quantity" /\ calls[2].ok
                /\ FiltersFor(calls[2].snapshot, upper(args.symbol), "LOT_SIZE") # {}) =>
               (checks[i].passed <=>
                    \A f \in FiltersFor(calls[2].snapshot, upper(args.symbol), "LOT_SIZE") :
                        DecGE(args.quantity, f.minQty))

\* a quantity equal to minQty has passed the minQty check
C7_Witness ==
    /\ Len(checks) >= 4
    /\ checks[4].passed
    /\ calls[2].ok
    /\ \E f \in FiltersFor(calls[2].snapshot, upper(args.symbol), "LOT_SIZE") :
           f.minQty = args.quantity

(***************************************************************************)
(* C8 (as the specification states it): the tick check accepts a price     *)
(* that is an exact multiple of the tick size and rejects a price that is  *)
(* not (a price in thousandths that is no multiple of a tick in            *)
(* thousandths is off the nearest multiple by more than tick * 1e-10).     *)
(***************************************************************************)
C8_TickAlignment ==
    (probe # None /\ probe[1].accepted # None) =>
        (probe[1].accepted[1] <=> DecMultiple(probe[1].price, probe[1].tick_size))

(***************************************************************************)
(* C9: every check that looks the symbol up gives for the symbol as typed  *)
(* what it gives for the upper-cased symbol on the same metadata, and the  *)
(* symbol sent to futures_create_order is the upper-cased one, spelled as  *)
(* the exchange lists it.                                                  *)
(***************************************************************************)
C9_CaseInsensitive ==
    /\ Len(checks) >= 1 =>
           checks[1].passed = validate_symbol(InfoOf(calls[1]), upper(args.symbol))
    /\ Len(checks) >= 4 =>
           checks[4].passed =
               validate_quantity(InfoOf(calls[2]), upper(args.symbol), args.quantity)
    /\ Len(checks) >= 6 =>
           checks[6].passed =
               _validate_price_precision(InfoOf(calls[3]), upper(args.symbol), args.price)
    /\ \A i \in CallsOf("futures_create_order") :
           /\ calls[i].request.symbol = upper(args.symbol)
           /\ EntriesFor(calls[1].snapshot, calls[i].request.symbol) # {}

\* "btcusdt" was accepted and the order created
C9_Witness ==
    /\ args.kind = "LIMIT"
    /\ args.symbol = btcusdt
    /\ ValidationPassed
    /\ \E i \in CallsOf("futures_create_order") : calls[i].request.symbol = BTCUSDT

(***************************************************************************)
(* C10 (as the specification states it): a result other than None exists   *)
(* only when validation passed and futures_create_order was called once    *)
(* and returned; its order_id and raw_response are those of the response   *)
(* and its symbol, side, quantity and price are those of the request sent. *)
(***************************************************************************)
C10_ResultEchoesRequest ==
    result # None =>
        /\ ValidationPassed
        /\ NumCalls("futures_create_order") = 1
        /\ \A i \in CallsOf("futures_create_order") :
               /\ calls[i].ok
               /\ result[1].order_id = calls[i].ret[1].orderId
               /\ result[1].raw_response = calls[i].ret[1]
               /\ result[1].symbol = calls[i].request.symbol
               /\ result[1].side = calls[i].request.side
               /\ result[1].quantity = calls[i].request.quantity
               /\ args.kind = "LIMIT" => result[1].price = calls[i].request.price

(***************************************************************************)
(* C15: when the metadata fetched by validate_quantity lists the symbol    *)
(* without a LOT_SIZE filter, the minQty check fails whatever the quantity *)
(* and futures_create_order is never called; when the metadata fetched by  *)
(* _validate_price_precision lists the symbol without a PRICE_FILTER, the  *)
(* price check passes whatever the (positive) price; and when it does not  *)
(* list the symbol at all, the price check fails.                          *)
(***************************************************************************)
C15_MissingFilters ==
    /\ (Len(checks) >= 4 /\ calls[2].ok
            /\ EntriesFor(calls[2].snapshot, upper(args.symbol)) # {}
            /\ FiltersFor(calls[2].snapshot, upper(args.symbol), "LOT_SIZE") = {}) =>
           /\ ~checks[4].passed
           /\ NumCalls("futures_create_order") = 0
           /\ result = None
    /\ (Len(checks) >= 6 /\ calls[3].ok
            /\ EntriesFor(calls[3].snapshot, upper(args.symbol)) # {}
            /\ FiltersFor(calls[3].snapshot, upper(args.symbol), "PRICE_FILTER") = {}) =>
           checks[6].passed
    /\ (Len(checks) >= 6 /\ calls[3].ok
            /\ EntriesFor(calls[3].snapshot, upper(args.symbol)) = {}) =>
           ~checks[6].passed

\* a price off every tick of the other snapshots has passed the price check
\* of a symbol without PRICE_FILTER
C15_Witness ==
    /\ Len(checks) >= 6
    /\ calls[3].ok
    /\ calls[3].snapshot = "no_price_filter"
    /\ args.price = Dec(100005, 3)
    /\ checks[6].passed

(***************************************************************************)
(* BasicBot: the session object and the operations made on it.             *)
(* A gateway call returns, raises an error (an Exception) or is broken off *)
(* by KeyboardInterrupt, which no 'except Exception' clause catches.       *)
(***************************************************************************)
Info(message) == [level |-> "INFO", message |-> message]

Warning(message) == [level |-> "WARNING", message |-> message]

Error(message) == [level |-> "ERROR", message |-> message]

CallOutcomes == {"returns", "raises", "interrupt"}

ApiKeys == {"key"}

ApiSecrets == {"secret"}

\* Client(api_key, api_secret, testnet=testnet) and the API_URL set on it
ClientOf(api_key, api_secret, testnet) ==
    [api_key |-> api_key, api_secret |-> api_secret, testnet |-> testnet,
     API_URL |-> IF testnet THEN "https://testnet.binancefuture.com" ELSE "default"]

\* the attributes of a BasicBot after __init__; client is None when unset
SessionOf(api_key, api_secret, testnet) ==
    [api_key |-> api_key, api_secret |-> api_secret, testnet |-> testnet,
     client |-> Some(ClientOf(api_key, api_secret, testnet))]

ClientCall(api_key, api_secret, testnet, outcome) ==
    [op |-> "Client", ok |-> outcome = "returns", outcome |-> outcome,
     api_key |-> api_key, api_secret |-> api_secret, testnet |-> testnet]

AccountCall(outcome) ==
    [op |-> "futures_account", ok |-> outcome = "returns", outcome |-> outcome]

\* mutant: _test_connection lets the error of futures_account through
_test_connection_Reraise(outcome) ==
    CASE outcome = "returns" ->
             [value |-> Some(TRUE), exc |-> "none",
              log |-> <<Info("Connection to Binance API successful"),
                        Info("Account balance")>>]
      [] outcome = "raises" ->
             [value |-> None, exc |-> "Exception",
              log |-> <<Error("Connection test failed")>>]
      [] outcome = "interrupt" ->
             [value |-> None, exc |-> "KeyboardInterrupt", log |-> <<>>]

\* _test_connection: what it returns, what it logs, what leaves it
_test_connection(outcome) ==
    CASE outcome = "returns" ->
             [value |-> Some(TRUE), exc |-> "none",
              log |-> <<Info("Connection to Binance API successful"),
                        Info("Account balance")>>]
      [] outcome = "raises" ->
             [value |-> Some(FALSE), exc |-> "none",
              log |-> <<Error("Connection test failed")>>]
      [] outcome = "interrupt" ->
             [value |-> None, exc |-> "KeyboardInterrupt", log |-> <<>>]

\* BasicBot.__init__: the object (None when an exception leaves __init__),
\* the calls made, the log entries and the exception that leaves it
BasicBot_init(api_key, api_secret, testnet, client_outcome, account_outcome) ==
    LET client_call == ClientCall(api_key, api_secret, testnet, client_outcome)
        test == _test_connection(account_outcome)
    IN  CASE client_outcome = "raises" ->
                 [session |-> None, calls |-> <<client_call>>, exc |-> "Exception",
                  log |-> <<Error("Failed to initialize bot")>>]
          [] client_outcome = "interrupt" ->
                 [session |-> None, calls |-> <<client_call>>,
                  exc |-> "KeyboardInterrupt", log |-> <<>>]
          [] client_outcome = "returns" /\ test.exc = "none" ->
                 [session |-> Some(SessionOf(api_key, api_secret, testnet)),
                  calls |-> <<client_call, AccountCall(account_outcome)>>,
                  exc |-> "none",
                  log |-> <<Info("Bot initialized")>> \o test.log]
          [] client_outcome = "returns" /\ test.exc = "Exception" ->
                 [session |-> None,
                  calls |-> <<client_call, AccountCall(account_outcome)>>,
                  exc |-> "Exception",
                  log |-> <<Info("Bot initialized")>> \o test.log
                              \o <<Error("Failed to initialize bot")>>]
          [] client_outcome = "returns" /\ test.exc = "KeyboardInterrupt" ->
                 [session |-> None,
                  calls |-> <<client_call, AccountCall(account_outcome)>>,
                  exc |-> "KeyboardInterrupt",
                  log |-> <<Info("Bot initialized")>> \o test.log]

(***************************************************************************)
(* The operations on a session.  Each makes one gateway call through       *)
(* self.client inside try / except Exception.                              *)
(***************************************************************************)
MaxOperations == 2

\* self.client.futures_...(): the attribute must hold a client
ClientUsable(s) == s[1].client # None

\* the call returned: the client was there and the gateway did not raise
Answered(s, ok) == ClientUsable(s) /\ ok

\* mutant: an operation that failed drops the client of the session
SessionAfterError_Closed(s) == Some([s[1] EXCEPT !.client = None])

\* the except clauses log and return: nothing is assigned to self
SessionAfterError(s) == s

AccountInfos ==
    {[totalWalletBalance |-> Dec(1005, 1), totalUnrealizedPnL |-> Dec(0, 0),
      totalMarginBalance |-> Dec(1005, 1), availableBalance |-> Dec(5025, 2)],
     [totalWalletBalance |-> Dec(1005, 1)]}

\* float(account_info.get(name, 0))
BalanceField(account_info, name) ==
    IF name \in DOMAIN account_info THEN ParseFloat(account_info[name]) ELSE FloatZero

get_account_balance(ok, account_info) ==
    IF ~ok THEN None
    ELSE Some([total_wallet_balance |-> BalanceField(account_info, "totalWalletBalance"),
               total_unrealized_pnl |-> BalanceField(account_info, "totalUnrealizedPnL"),
               total_margin_balance |-> BalanceField(account_info, "totalMarginBalance"),
               available_balance |-> BalanceField(account_info, "availableBalance")])

cancel_order(ok) == ok

OpenOrder ==
    [orderId |-> 1, symbol |-> BTCUSDT, side |-> BUY, origQty |-> Dec(1, 3),
     price |-> Dec(10000, 2), status |-> "NEW"]

OpenOrderLists == {<<>>, <<OpenOrder>>, <<[orderId |-> 1, symbol |-> BTCUSDT]>>}

get_open_orders(ok, orders) == IF ok THEN orders ELSE <<>>

TradeLists == {<<>>, <<[id |-> 1, symbol |-> BTCUSDT, qty |-> Dec(1, 3)]>>}

get_recent_trades(ok, trades) == IF ok THEN trades ELSE <<>>

\* what the operation gives the logger
OperationLog(op, ok, value) ==
    CASE op = "validate_symbol" ->
             IF ~ok THEN <<Error("Error validating symbol")>>
             ELSE IF value THEN <<Info("Symbol is valid")>>
             ELSE <<Warning("Symbol is not valid or not trading")>>
      [] op = "validate_quantity" ->
             IF ~ok THEN <<Error("Error validating quantity")>>
             ELSE IF value THEN <<Info("Quantity is valid")>>
             ELSE <<Warning("Quantity below minimum or no quantity validation info")>>
      [] op = "get_symbol_info" ->
             IF ~ok THEN <<Error("Error getting symbol info")>> ELSE <<>>
      [] op = "get_account_balance" ->
             IF ~ok THEN <<Error("Error getting account balance")>>
             ELSE <<Info("Account balance retrieved")>>
      [] op = "cancel_order" ->
             IF ~ok THEN <<Error("Failed to cancel order")>>
             ELSE <<Info("Order cancelled successfully")>>
      [] op = "get_open_orders" ->
             IF ~ok THEN <<Error("Failed to get open orders")>>
             ELSE <<Info("Retrieved open orders")>>
      [] op = "get_recent_trades" ->
             IF ~ok THEN <<Error("Failed to get recent trades")>>
             ELSE <<Info("Retrieved recent trades")>>

\* the metadata an operation sees: what was fetched, if the call returned
InfoSeen(s, info) == IF Answered(s, info.ok) THEN info ELSE InfoRaised

InfoCallBy(s, info) ==
    [op |-> "futures_exchange_info", ok |-> info.ok, snapshot |-> info.snapshot,
     client |-> s[1].client]

GatewayCallBy(s, op, ok, ret) ==
    [op |-> op, ok |-> ok, ret |-> ret, client |-> s[1].client]

InitSession ==
    /\ exchange \in {"base", "delisted"}
    /\ pc = "new"
    /\ args = NoArgs
    /\ calls = <<>>
    /\ checks = <<>>
    /\ result = None
    /\ raised = FALSE
    /\ probe = None
    /\ session = None
    /\ log = <<>>
    /\ exit_code = None
    /\ escaped = "none"

\* bot = BasicBot(api_key, api_secret, testnet)
NewSession ==
    /\ pc = "new"
    /\ \E api_key \in ApiKeys, api_secret \in ApiSecrets, testnet \in BOOLEAN,
          client_outcome \in CallOutcomes, account_outcome \in CallOutcomes :
          LET bot == BasicBot_init(api_key, api_secret, testnet, client_outcome,
                                   account_outcome)
          IN  /\ session' = bot.session
              /\ calls' = bot.calls
              /\ log' = bot.log
              /\ raised' = (bot.exc # "none")
              /\ escaped' = bot.exc
              /\ pc' = IF bot.exc = "none" THEN "ready" ELSE "aborted"
    /\ args' = [op |-> "BasicBot"]
    /\ UNCHANGED <<exchange, checks, result, probe, exit_code>>

\* one operation on the session: its call, its return value, its log entries
SessionStep(a, call, value) ==
    /\ args' = a
    /\ calls' = Append(calls, call)
    /\ result' = Some(value)
    /\ log' = log \o OperationLog(a.op, Answered(session, call.ok), value)
    /\ session' = IF Answered(session, call.ok) THEN session
                  ELSE SessionAfterError(session)
    /\ UNCHANGED <<exchange, pc, checks, raised, probe, exit_code, escaped>>

CanOperate == pc = "ready" /\ Len(calls) < 2 + MaxOperations

CallValidateSymbol ==
    /\ CanOperate
    /\ \E symbol \in {BTCUSDT, btcusdt}, info \in {InfoOk(exchange), InfoRaised} :
          SessionStep([op |-> "validate_symbol", symbol |-> symbol],
                      InfoCallBy(session, info),
                      validate_symbol(InfoSeen(session, info), symbol))

CallValidateQuantity ==
    /\ CanOperate
    /\ \E symbol \in {BTCUSDT}, quantity \in {Dec(5, 4), Dec(1, 3)},
          info \in {InfoOk(exchange), InfoRaised} :
          SessionStep([op |-> "validate_quantity", symbol |-> symbol,
                       quantity |-> quantity],
                      InfoCallBy(session, info),
                      validate_quantity(InfoSeen(session, info), symbol, quantity))

CallGetSymbolInfo ==
    /\ CanOperate
    /\ \E symbol \in {btcusdt}, info \in {InfoOk(exchange), InfoRaised} :
          SessionStep([op |-> "get_symbol_info", symbol |-> symbol],
                      InfoCallBy(session, info),
                      get_symbol_info(InfoSeen(session, info), symbol))

CallGetAccountBalance ==
    /\ CanOperate
    /\ \/ \E account_info \in AccountInfos :
             SessionStep([op |-> "get_account_balance"],
                         GatewayCallBy(session, "futures_account", TRUE, Some(account_info)),
                         get_account_balance(Answered(session, TRUE), account_info))
       \/ SessionStep([op |-> "get_account_balance"],
                      GatewayCallBy(session, "futures_account", FALSE, None),
                      get_account_balance(FALSE, [totalWalletBalance |-> Dec(0, 0)]))

CallCancelOrder ==
    /\ CanOperate
    /\ \E ok \in BOOLEAN :
          SessionStep([op |-> "cancel_order", symbol |-> BTCUSDT, order_id |-> 1],
                      GatewayCallBy(session, "futures_cancel_order", ok,
                                    IF ok THEN Some([orderId |-> 1]) ELSE None),
                      cancel_order(Answered(session, ok)))

CallGetOpenOrders ==
    /\ CanOperate
    /\ \/ \E orders \in OpenOrderLists :
             SessionStep([op |-> "get_open_orders"],
                         GatewayCallBy(session, "futures_get_open_orders", TRUE, Some(orders)),
                         get_open_orders(Answered(session, TRUE), orders))
       \/ SessionStep([op |-> "get_open_orders"],
                      GatewayCallBy(session, "futures_get_open_orders", FALSE, None),
                      get_open_orders(FALSE, <<>>))

CallGetRecentTrades ==
    /\ CanOperate
    /\ \/ \E trades \in TradeLists :
             SessionStep([op |-> "get_recent_trades", symbol |-> BTCUSDT],
                         GatewayCallBy(session, "futures_account_trades", TRUE, Some(trades)),
                         get_recent_trades(Answered(session, TRUE), trades))
       \/ SessionStep([op |-> "get_recent_trades", symbol |-> BTCUSDT],
                      GatewayCallBy(session, "futures_account_trades", FALSE, None),
                      get_recent_trades(FALSE, <<>>))

NextSession ==
    \/ NewSession
    \/ CallValidateSymbol
    \/ CallValidateQuantity
    \/ CallGetSymbolInfo
    \/ CallGetAccountBalance
    \/ CallCancelOrder
    \/ CallGetOpenOrders
    \/ CallGetRecentTrades

SpecSession == InitSession /\ [][NextSession]_vars

\* what an operation returns when its gateway call raises
AbsentValue(op) ==
    CASE op \in {"validate_symbol", "validate_quantity", "cancel_order"} -> FALSE
      [] op \in {"get_symbol_info", "get_account_balance"} -> None
      [] op \in {"get_open_orders", "get_recent_trades"} -> <<>>

\* what the operation returns given its arguments and the outcome of its own
\* gateway call alone
ExpectedResult(a, call) ==
    CASE a.op = "validate_symbol" -> validate_symbol(InfoOf(call), a.symbol)
      [] a.op = "validate_quantity" ->
             validate_quantity(InfoOf(call), a.symbol, a.quantity)
      [] a.op = "get_symbol_info" -> get_symbol_info(InfoOf(call), a.symbol)
      [] a.op = "get_account_balance" ->
             IF call.ok THEN get_account_balance(TRUE, call.ret[1]) ELSE None
      [] a.op = "cancel_order" -> call.ok
      [] a.op \in {"get_open_orders", "get_recent_trades"} ->
             IF call.ok THEN call.ret[1] ELSE <<>>

ConstructedSession ==
    Some(SessionOf(calls[1].api_key, calls[1].api_secret, calls[1].testnet))

(***************************************************************************)
(* C11: when futures_account raises an error in _test_connection, BasicBot *)
(* is constructed all the same: no exception leaves __init__, the session  *)
(* holds the credentials and the client, the failure is an ERROR entry of  *)
(* the log and nothing else, and an operation made later on the session    *)
(* returns what its own gateway call gives.                                *)
(***************************************************************************)
C11_FailedConnectionCheckKeepsSession ==
    (Len(calls) >= 2 /\ calls[2].op = "futures_account" /\ calls[2].outcome = "raises") =>
        /\ pc = "ready"
        /\ ~raised
        /\ session = ConstructedSession
        /\ SubSeq(log, 1, 2) = <<Info("Bot initialized"), Error("Connection test failed")>>
        /\ \A i \in DOMAIN log : log[i] # Error("Failed to initialize bot")
        /\ exit_code = None
        /\ Len(calls) > 2 => result = Some(ExpectedResult(args, calls[Len(calls)]))

\* after the failed connection check one operation succeeded and the next failed
C11_Witness ==
    /\ Len(calls) = 4
    /\ calls[2].op = "futures_account"
    /\ calls[2].outcome = "raises"
    /\ calls[3].ok
    /\ ~calls[4].ok
    /\ args.op = "cancel_order"
    /\ result = Some(FALSE)

(***************************************************************************)
(* C14: after any operation on a session no exception has left it; when    *)
(* its gateway call raised it returned its absent value (False, None or    *)
(* the empty list); the session still holds the credentials and the client *)
(* it was constructed with, and every operation used that client; and the  *)
(* operation returned what its own gateway call gives, whatever the calls  *)
(* before it did.                                                          *)
(***************************************************************************)
C14_FaultIsolation ==
    (pc = "ready" /\ Len(calls) > 2) =>
        /\ ~raised
        /\ ~calls[Len(calls)].ok => result = Some(AbsentValue(args.op))
        /\ session = ConstructedSession
        /\ \A i \in 3..Len(calls) : calls[i].client = session[1].client
        /\ result = Some(ExpectedResult(args, calls[Len(calls)]))

\* futures_cancel_order raised, and get_open_orders after it returned the orders
C14_Witness ==
    /\ Len(calls) = 4
    /\ calls[3].op = "futures_cancel_order"
    /\ ~calls[3].ok
    /\ calls[4].ok
    /\ args.op = "get_open_orders"
    /\ result = Some(<<OpenOrder>>)


(***************************************************************************)
(* main.py: the command line.  args is what argparse gives main, together  *)
(* with the two environment variables get_credentials reads.  The order    *)
(* commands run place_market_order / place_limit_order step by step, with  *)
(* the steps above.                                                        *)
(***************************************************************************)
\* Python's truth value of an optional string: None and '' are false
Truthy(x) == x # None /\ x[1] # <<>>

\* x or y
PyOr(x, y) == IF Truthy(x) THEN x ELSE y

\* mutant: missing credentials are passed on as empty strings
get_credentials_Lenient(a) ==
    LET api_key == PyOr(a.api_key, a.environ.BINANCE_API_KEY)
        api_secret == PyOr(a.api_secret, a.environ.BINANCE_API_SECRET)
    IN  Some(<<IF Truthy(api_key) THEN api_key[1] ELSE <<>>,
               IF Truthy(api_secret) THEN api_secret[1] ELSE <<>> >>)

\* get_credentials: the pair it returns, None when it ends in sys.exit(1)
get_credentials(a) ==
    LET api_key == PyOr(a.api_key, a.environ.BINANCE_API_KEY)
        api_secret == PyOr(a.api_secret, a.environ.BINANCE_API_SECRET)
    IN  IF ~Truthy(api_key) \/ ~Truthy(api_secret) THEN None
        ELSE Some(<<api_key[1], api_secret[1]>>)

\* mutant: the generic except clause also takes the interrupt
ExitStatus_InterruptFails(exc) == IF exc = "none" THEN 0 ELSE 1

\* the exit status of the process for what reached the end of main:
\* a return, except KeyboardInterrupt (print, return), except Exception
\* (sys.exit(1)), a sys.exit(1) that nothing catches
ExitStatus(exc) ==
    CASE exc = "none" -> 0
      [] exc = "KeyboardInterrupt" -> 0
      [] exc = "Exception" -> 1
      [] exc = "SystemExit" -> 1

\* --api-key / --api-secret and BINANCE_API_KEY / BINANCE_API_SECRET
CliCredentials ==
    {[api_key |-> k, api_secret |-> s,
      environ |-> [BINANCE_API_KEY |-> ek, BINANCE_API_SECRET |-> es]] :
        k \in {None, Some(<<>>), Some(<<"k">>)}, s \in {None, Some(<<"s">>)},
        ek \in {None, Some(<<"e", "k">>)}, es \in {None, Some(<<"e", "s">>)}}

\* the subcommands with their arguments; "none" is a command line without one
CliCommands ==
    {[command |-> c, kind |-> "none", testnet |-> TRUE] : c \in {"none", "demo", "balance"}}
    \cup {[command |-> "orders", kind |-> "none", testnet |-> TRUE, symbol |-> sym] :
              sym \in {None, Some(BTCUSDT)}}
    \cup {[command |-> "market", kind |-> "MARKET", testnet |-> TRUE, symbol |-> sym,
           side |-> side, quantity |-> q] :
              sym \in {btcusdt, FAKEUSDT}, side \in {<<"b", "u", "y">>, <<"s", "e", "l", "l">>},
              q \in {Dec(0, 0), Dec(1, 3)}}
    \cup {[command |-> "limit", kind |-> "LIMIT", testnet |-> TRUE, symbol |-> sym,
           side |-> side, quantity |-> q, price |-> p] :
              sym \in {BTCUSDT}, side \in {<<"b", "u", "y">>, <<"s", "e", "l", "l">>},
              q \in {Dec(1, 3)}, p \in {Dec(10000, 2), Dec(100005, 3)}}

CliInputs == {c @@ cred : c \in CliCommands, cred \in CliCredentials}

\* the first step of the handler of a command
HandlerPc(command) ==
    CASE command \in {"market", "limit"} -> "validate_symbol"
      [] command = "balance" -> "balance"
      [] command = "orders" -> "orders"

HandlerPcs ==
    {"validate_symbol", "validate_quantity", "price_precision", "create_order",
     "get_order", "done", "balance", "orders"}

\* the keys handle_orders reads of every open order
OrderKeys == {"orderId", "symbol", "side", "origQty", "price", "status"}

InitMain ==
    /\ exchange \in {"base", "no_lot_size"}
    /\ pc = "main"
    /\ args \in CliInputs
    /\ calls = <<>>
    /\ checks = <<>>
    /\ result = None
    /\ raised = FALSE
    /\ probe = None
    /\ session = None
    /\ log = <<>>
    /\ exit_code = None
    /\ escaped = "none"

\* the process ends: exc is what reached the end of main
Exit(exc) ==
    /\ pc' = "exited"
    /\ escaped' = exc
    /\ exit_code' = Some(ExitStatus(exc))

\* main up to get_credentials
MainDispatch ==
    /\ pc = "main"
    /\ IF args.command = "none" THEN Exit("SystemExit")
       ELSE IF args.command = "demo" THEN Exit("none")
       ELSE IF get_credentials(args) = None THEN Exit("SystemExit")
       ELSE pc' = "new_bot" /\ UNCHANGED <<exit_code, escaped>>
    /\ UNCHANGED <<exchange, args, calls, checks, result, raised, probe, session, log>>

\* bot = BasicBot(api_key, api_secret, testnet=args.testnet), the two
\* managers, and the choice of the handler
MainNewBot ==
    /\ pc = "new_bot"
    /\ \E client_outcome \in CallOutcomes, account_outcome \in CallOutcomes :
          LET credentials == get_credentials(args)[1]
              bot == BasicBot_init(credentials[1], credentials[2], args.testnet,
                                   client_outcome, account_outcome)
          IN  /\ session' = bot.session
              /\ calls' = bot.calls
              /\ log' = bot.log
              /\ IF bot.exc = "none"
                 THEN pc' = HandlerPc(args.command) /\ UNCHANGED <<exit_code, escaped>>
                 ELSE Exit(bot.exc)
    /\ UNCHANGED <<exchange, args, checks, result, raised, probe>>

\* handle_market_order / handle_limit_order after place_*_order returned:
\* the prints, and main returns
MainReturn ==
    /\ pc = "done"
    /\ Exit("none")
    /\ UNCHANGED <<exchange, args, calls, checks, result, raised, probe, session, log>>

handle_balance ==
    /\ pc = "balance"
    /\ \E ok \in BOOLEAN, account_info \in AccountInfos :
          LET balance == get_account_balance(Answered(session, ok), account_info)
          IN  /\ calls' = Append(calls, GatewayCallBy(session, "futures_account", ok,
                                     IF ok THEN Some(account_info) ELSE None))
              /\ result' = Some(balance)
              /\ log' = log \o OperationLog("get_account_balance",
                                            Answered(session, ok), balance)
    /\ Exit("none")
    /\ UNCHANGED <<exchange, args, checks, raised, probe, session>>

\* handle_orders: order['orderId'], ... raise KeyError on an order without
\* the key
handle_orders ==
    /\ pc = "orders"
    /\ \E ok \in BOOLEAN, answer \in OpenOrderLists :
          LET orders == get_open_orders(Answered(session, ok), answer)
          IN  /\ calls' = Append(calls, GatewayCallBy(session, "futures_get_open_orders",
                                     ok, IF ok THEN Some(answer) ELSE None))
              /\ result' = Some(orders)
              /\ log' = log \o OperationLog("get_open_orders",
                                            Answered(session, ok), orders)
              /\ IF \A i \in DOMAIN orders : OrderKeys \subseteq DOMAIN orders[i]
                 THEN Exit("none")
                 ELSE Exit("Exception")
    /\ UNCHANGED <<exchange, args, checks, raised, probe, session>>

\* Ctrl-C while a handler runs
MainInterrupt ==
    /\ pc \in HandlerPcs
    /\ Exit("KeyboardInterrupt")
    /\ UNCHANGED <<exchange, args, calls, checks, result, raised, probe, session, log>>

NextMain ==
    \/ MainDispatch
    \/ MainNewBot
    \/ ValidateSymbolStep
    \/ ValidateQuantityStep
    \/ ValidatePricePrecisionStep
    \/ CreateOrderRaises
    \/ CreateOrderReturns
    \/ GetOrderStep
    \/ MainReturn
    \/ handle_balance
    \/ handle_orders
    \/ MainInterrupt

SpecMain == InitMain /\ [][NextMain]_vars


\* a credential that neither its flag nor its environment variable supplies
NotSupplied(flag, env) == flag \in {None, Some(<<>>)} /\ env \in {None, Some(<<>>)}

CredentialMissing(a) ==
    \/ NotSupplied(a.api_key, a.environ.BINANCE_API_KEY)
    \/ NotSupplied(a.api_secret, a.environ.BINANCE_API_SECRET)

Nonzero(status) == status # None /\ status[1] # 0

(***************************************************************************)
(* C12: a demo run, and a run of any other subcommand whose API key or     *)
(* secret is missing from both the flags and the environment, makes no     *)
(* exchange-facing call and constructs no session; the demo run ends with  *)
(* exit status 0, the run without credentials with a nonzero exit status.  *)
(***************************************************************************)
C12_NoCallWithoutCredentials ==
    (args.command = "demo" \/ (args.command # "none" /\ CredentialMissing(args))) =>
        /\ calls = <<>>
        /\ session = None
        /\ log = <<>>
        /\ pc \in {"main", "exited"}
        /\ pc = "exited" =>
              IF args.command = "demo" THEN exit_code = Some(0) ELSE Nonzero(exit_code)

\* a market order command with a key but no secret has ended
C12_Witness ==
    /\ pc = "exited"
    /\ args.command = "market"
    /\ args.api_key = Some(<<"k">>)
    /\ args.api_secret = None
    /\ args.environ.BINANCE_API_SECRET = None
    /\ calls = <<>>
    /\ exit_code = Some(1)

(***************************************************************************)
(* C13: once the process has ended: a command line without a subcommand    *)
(* gave a nonzero exit status and made no call; an exception other than    *)
(* the interrupt that left the construction of the session or a handler    *)
(* gave a nonzero exit status; a KeyboardInterrupt during the construction *)
(* or a handler gave exit status 0.                                        *)
(***************************************************************************)
C13_ExitStatus ==
    pc = "exited" =>
        /\ args.command = "none" => Nonzero(exit_code) /\ calls = <<>>
        /\ escaped = "Exception" => Nonzero(exit_code)
        /\ escaped = "KeyboardInterrupt" => exit_code = Some(0)
        \* the construction did not give a session
        /\ (calls # <<>> /\ session = None) =>
              /\ calls[Len(calls)].outcome \in {"raises", "interrupt"}
              /\ calls[Len(calls)].outcome = "raises" =>
                    escaped = "Exception" /\ Nonzero(exit_code)
              /\ calls[Len(calls)].outcome = "interrupt" =>
                    escaped = "KeyboardInterrupt" /\ exit_code = Some(0)
        \* handle_orders met an order without one of the keys it prints
        /\ (args.command = "orders" /\ result # None
              /\ \E i \in DOMAIN result[1] : ~(OrderKeys \subseteq DOMAIN result[1][i])) =>
              escaped = "Exception" /\ Nonzero(exit_code)

\* Ctrl-C ended a limit order command between two of its exchange calls
C13_Witness ==
    /\ pc = "exited"
    /\ escaped = "KeyboardInterrupt"
    /\ args.command = "limit"
    /\ session # None
    /\ NumCalls("futures_exchange_info") = 2
    /\ exit_code = Some(0)

====
